---------------------------- MODULE Spec2Model ----------------------------
(***************************************************************************)
(* Follower Greeter Bot (src/fgb_fb_bot/main.py): the helper functions,    *)
(* the module-level configuration and the three routes.                    *)
(*                                                                         *)
(* A Python str is modelled as a sequence of code points.  A code point is *)
(* a one-character string ("a", "?", " "); a code point outside ASCII is   *)
(* written by its name ("U+0130").                                         *)
(***************************************************************************)
EXTENDS Integers, Sequences, FiniteSets, TLC

VARIABLES
    environ,            \* os.environ, read once at import time
    BRAND_NAME,         \* module globals, lines 81-86
    NURSE_MEDIA_URL,
    NURSE_CURTAIN_URL,
    NURSE_BED_URL,
    NURSE_NIL_URL,
    DEFAULT_TEMPLATES,  \* module global, lines 94-110
    conn                \* the requests the server is handling, by connection

globals == <<BRAND_NAME, NURSE_MEDIA_URL, NURSE_CURTAIN_URL, NURSE_BED_URL,
             NURSE_NIL_URL, DEFAULT_TEMPLATES>>
vars == <<environ, BRAND_NAME, NURSE_MEDIA_URL, NURSE_CURTAIN_URL,
          NURSE_BED_URL, NURSE_NIL_URL, DEFAULT_TEMPLATES, conn>>

---------------------------------------------------------------------------
(* Bounds of the model *)

\* the longest text, in fragments of TextTokens
MaxTokens == 3
\* the most header lines of one request
MaxHeaders == 2
\* the most requests in flight at once
MaxConns == 2

---------------------------------------------------------------------------
(* str *)

\* the code points of an ASCII literal
Str(s) == [i \in 1..Len(s) |-> SubSeq(s, i, i)]

\* "".join(parts)
RECURSIVE Join(_)
Join(parts) == IF parts = <<>> THEN <<>> ELSE Head(parts) \o Join(Tail(parts))

\* the sequences over S of length at most n
SeqsUpTo(S, n) == UNION {[1..k -> S] : k \in 0..n}

UpperAZ == Str("ABCDEFGHIJKLMNOPQRSTUVWXYZ")
LowerAZ == Str("abcdefghijklmnopqrstuvwxyz")

\* the code points str.lower() changes, each with its lowercase form.  U+0130
\* (capital I with dot above) is the one code point of the model whose
\* lowercase form is two code points long.
LowerTable ==
    [c \in {UpperAZ[i] : i \in 1..26} \cup {"U+0130"} |->
        IF c = "U+0130" THEN <<"i", "U+0307">>
        ELSE <<LowerAZ[CHOOSE i \in 1..26 : UpperAZ[i] = c]>>]

\* str.lower() of one code point
lower_char(c) == IF c \in DOMAIN LowerTable THEN LowerTable[c] ELSE <<c>>

\* str.lower(): every code point lowered, in order
RECURSIVE lower(_)
lower(s) ==
    IF \A i \in DOMAIN s : Len(lower_char(s[i])) = 1
    THEN [i \in DOMAIN s |-> lower_char(s[i])[1]]
    ELSE IF Len(s) = 1 THEN lower_char(s[1])
    ELSE LET half == Len(s) \div 2
         IN  lower(SubSeq(s, 1, half)) \o lower(SubSeq(s, half + 1, Len(s)))

\* str.isspace() of one code point
Whitespace == {" "}

\* str.strip()
RECURSIVE lstrip(_)
lstrip(s) == IF s # <<>> /\ Head(s) \in Whitespace THEN lstrip(Tail(s)) ELSE s
RECURSIVE rstrip(_)
rstrip(s) ==
    IF s # <<>> /\ s[Len(s)] \in Whitespace
    THEN rstrip(SubSeq(s, 1, Len(s) - 1)) ELSE s
strip(s) == rstrip(lstrip(s))

\* w in s
Contains(s, w) ==
    \E i \in 1..(Len(s) - Len(w) + 1) : SubSeq(s, i, i + Len(w) - 1) = w

---------------------------------------------------------------------------
(* Helper functions *)

\* faulty variant of DictGet: the first item with key k is kept
DictGet_first(items, k) ==
    items[CHOOSE i \in DOMAIN items :
            /\ items[i][1] = k
            /\ \A j \in DOMAIN items : items[j][1] = k => i <= j][2]

\* the value of the last item with key k of a dict built from (key, value)
\* items in order: a later item replaces an earlier one with the same key
DictGet(items, k) ==
    items[CHOOSE i \in DOMAIN items :
            /\ items[i][1] = k
            /\ \A j \in DOMAIN items : items[j][1] = k => j <= i][2]
DictKeys(items) == {items[i][1] : i \in DOMAIN items}

\* detect_platform: headers is the sequence of (name, value) items that
\* headers.items() yields
detect_platform(headers) ==
    LET h == [i \in DOMAIN headers |-> <<lower(headers[i][1]), headers[i][2]>>]
    IN  IF Str("x-hub-signature") \in DictKeys(h)
        THEN IF Contains(lower(DictGet(h, Str("x-hub-signature"))), Str("instagram"))
             THEN "instagram"
             ELSE "facebook"
        ELSE IF Str("tiktok-signature") \in DictKeys(h) THEN "tiktok"
        ELSE IF Str("x-twitter-auth") \in DictKeys(h) THEN "x"
        ELSE "unknown"

urgent_words ==
    {Str("help"), Str("urgent"), Str("problem"), Str("question"), Str("issue"),
     Str("support"), Str("can you"), Str("please"), Str("???")}

\* the code points of the literal of line 49: four emoji of one code point
\* each, then the red heart, which is U+2764 followed by the variation
\* selector U+FE0F
emoji_literal == <<"U+1F642", "U+1F60A", "U+1F622", "U+1F62D", "U+2764", "U+FE0F">>

needs_manual_reply(text) ==
    IF text = <<>> THEN FALSE
    ELSE LET t == lower(text)
         IN  IF \E w \in urgent_words : Contains(t, w) THEN TRUE
             ELSE IF Len(t) > 40 THEN TRUE
             ELSE IF \E k \in DOMAIN emoji_literal : Contains(text, <<emoji_literal[k]>>)
                  THEN TRUE
             ELSE FALSE

\* faulty variant of nurse_greeting: the name is not interpolated
nurse_greeting_no_name(name) ==
    Str("Hello friend. How are you today? Is there anything you need?")

nurse_greeting(name) ==
    Str("Hello ") \o name \o Str(". How are you today? Is there anything you need?")

pick(lst) == IF lst # <<>> THEN lst[1] ELSE <<>>

\* the index of the first code point of s that is in C, 0 when there is none
Find(s, C) ==
    IF \E i \in DOMAIN s : s[i] \in C
    THEN CHOOSE i \in DOMAIN s : s[i] \in C /\ \A j \in 1..(i - 1) : s[j] \notin C
    ELSE 0

Ok(v) == [err |-> "none", out |-> v]
Raise(e) == [err |-> e, out |-> <<>>]

\* r, a result, with the text v before it
After(v, r) == IF r.err = "none" THEN Ok(v \o r.out) ELSE r

\* str.format(**kw): "{{" and "}}" are literal braces, "{field}" is replaced
\* by kw[field] (KeyError when kw has no such key), a brace that opens no
\* field or closes none is a ValueError; a substituted value is not scanned
\* again
RECURSIVE format(_, _)
format(t, kw) ==
    LET b == Find(t, {"{", "}"})
        lit == SubSeq(t, 1, b - 1)
        rest == SubSeq(t, b + 1, Len(t))
    IN  IF b = 0 THEN Ok(t)
        ELSE IF rest # <<>> /\ rest[1] = t[b]
        THEN After(lit \o <<t[b]>>, format(Tail(rest), kw))
        ELSE IF t[b] = "}" THEN Raise("ValueError")
        ELSE LET close == Find(rest, {"}"})
                 field == SubSeq(rest, 1, close - 1)
             IN  IF close = 0 THEN Raise("ValueError")
                 ELSE IF field \notin DOMAIN kw THEN Raise("KeyError")
                 ELSE After(lit \o kw[field], format(SubSeq(rest, close + 1, Len(rest)), kw))

render_template(t, kw) == format(t, kw)

bad == {Str("buy followers"), Str("crypto"), Str("viagra"), Str("casino"), Str("loan")}

\* faulty variant of is_spam: the text is not lowercased
is_spam_case_sensitive(text) ==
    LET t == strip(text)
    IN  \E x \in bad : Contains(t, x)

is_spam(text) ==
    LET t == strip(lower(text))
    IN  \E x \in bad : Contains(t, x)

---------------------------------------------------------------------------
(* App + config *)

getenv(name, default) == IF name \in DOMAIN environ THEN environ[name] ELSE default

\* class Message(BaseModel): the request body parsed, name defaulting to
\* "friend"
Message(body) ==
    [name |-> IF "name" \in DOMAIN body THEN body.name ELSE Str("friend"),
     text |-> body.text]

\* faulty variant of the table: the boundary template names a placeholder
\* no call site supplies
TemplateTable_first_name ==
    [welcome |->
        [warm |-> <<Str("Hey {NAME}! I") \o <<"U+2019">> \o Str("m {BRAND_NAME}. What are you into ")
                    \o <<"U+2014">> \o Str(" guitars, lyrics, or good vibes?")>>],
     probe |->
        [pro |-> <<Str("Hello {NAME}. Are you interested in new releases, catalogue links, or something else?")>>],
     boundary |->
        [pro |-> <<Str("Hello {FIRST_NAME}. This inbox is for music-related chat.")>>]]

\* the literal of lines 94-110
TemplateTable ==
    [welcome |->
        [warm |-> <<Str("Hey {NAME}! I") \o <<"U+2019">> \o Str("m {BRAND_NAME}. What are you into ")
                    \o <<"U+2014">> \o Str(" guitars, lyrics, or good vibes?")>>],
     probe |->
        [pro |-> <<Str("Hello {NAME}. Are you interested in new releases, catalogue links, or something else?")>>],
     boundary |->
        [pro |-> <<Str("Hello {NAME}. This inbox is for music-related chat.")>>]]

---------------------------------------------------------------------------
(* Routes *)

\* DEFAULT_TEMPLATES[category][style]: a KeyError when either key is missing
lookup(category, style) ==
    IF category \in DOMAIN DEFAULT_TEMPLATES
       /\ style \in DOMAIN DEFAULT_TEMPLATES[category]
    THEN Ok(DEFAULT_TEMPLATES[category][style])
    ELSE Raise("KeyError")

\* render_template(pick(DEFAULT_TEMPLATES[category][style]), NAME=msg.name,
\*                 BRAND_NAME=BRAND_NAME)
rendered(category, style, msg) ==
    LET lst == lookup(category, style)
    IN  IF lst.err # "none" THEN lst
        ELSE render_template(pick(lst.out),
                             (Str("NAME") :> msg.name) @@ (Str("BRAND_NAME") :> BRAND_NAME))

\* faulty variant of the nurse_images block: bed gets the curtain URL
nurse_images_bed_curtain ==
    [main |-> NURSE_MEDIA_URL, curtain |-> NURSE_CURTAIN_URL,
     bed |-> NURSE_CURTAIN_URL, nil_by_mouth |-> NURSE_NIL_URL]

nurse_images ==
    [main |-> NURSE_MEDIA_URL, curtain |-> NURSE_CURTAIN_URL,
     bed |-> NURSE_BED_URL, nil_by_mouth |-> NURSE_NIL_URL]

\* the dict a handler returns, or the exception that ends it
payload(r, platform, manual_required) ==
    IF r.err # "none" THEN [error |-> r.err]
    ELSE [reply |-> r.out, platform |-> platform, manual_required |-> manual_required]

greeting_words == {Str("hi"), Str("hello"), Str("hey"), Str("yo")}

\* faulty variant of reply: the nurse branch is tried before the spam guard
reply_payload_nurse_first(msg, headers) ==
    LET platform == detect_platform(headers)
        manual_required == needs_manual_reply(msg.text)
        t == lower(msg.text)
    IN  IF Contains(t, Str("nurse"))
        THEN [reply |-> nurse_greeting(msg.name), platform |-> platform,
              manual_required |-> manual_required, nurse_images |-> nurse_images]
        ELSE IF is_spam(msg.text)
        THEN payload(rendered("boundary", "pro", msg), platform, manual_required)
        ELSE IF \E word \in greeting_words : Contains(t, word)
        THEN payload(rendered("welcome", "warm", msg), platform, manual_required)
        ELSE payload(rendered("probe", "pro", msg), platform, manual_required)

\* faulty variant of reply: a request of a known platform is always flagged
\* for a manual reply
reply_payload_platform_flag(msg, headers) ==
    LET platform == detect_platform(headers)
        manual_required == needs_manual_reply(msg.text) \/ platform # "unknown"
        t == lower(msg.text)
    IN  IF is_spam(msg.text)
        THEN payload(rendered("boundary", "pro", msg), platform, manual_required)
        ELSE IF Contains(t, Str("nurse"))
        THEN [reply |-> nurse_greeting(msg.name), platform |-> platform,
              manual_required |-> manual_required, nurse_images |-> nurse_images]
        ELSE IF \E word \in greeting_words : Contains(t, word)
        THEN payload(rendered("welcome", "warm", msg), platform, manual_required)
        ELSE payload(rendered("probe", "pro", msg), platform, manual_required)

\* the body of reply(msg, request): what the handler returns
reply_payload(msg, headers) ==
    LET platform == detect_platform(headers)
        manual_required == needs_manual_reply(msg.text)
        t == lower(msg.text)
    IN  IF is_spam(msg.text)
        THEN payload(rendered("boundary", "pro", msg), platform, manual_required)
        ELSE IF Contains(t, Str("nurse"))
        THEN [reply |-> nurse_greeting(msg.name), platform |-> platform,
              manual_required |-> manual_required, nurse_images |-> nurse_images]
        ELSE IF \E word \in greeting_words : Contains(t, word)
        THEN payload(rendered("welcome", "warm", msg), platform, manual_required)
        ELSE payload(rendered("probe", "pro", msg), platform, manual_required)

\* faulty variant of test_nurse: the canned message is built without a name
test_nurse_payload_no_name(headers) ==
    LET msg == Message([text |-> Str("nurse")])
        platform == detect_platform(headers)
        manual_required == needs_manual_reply(msg.text)
    IN  [reply |-> nurse_greeting(msg.name), platform |-> platform,
         manual_required |-> manual_required, nurse_images |-> nurse_images]

\* the body of test_nurse(request)
test_nurse_payload(headers) ==
    LET msg == Message([name |-> Str("Keith"), text |-> Str("nurse")])
        platform == detect_platform(headers)
        manual_required == needs_manual_reply(msg.text)
    IN  [reply |-> nurse_greeting(msg.name), platform |-> platform,
         manual_required |-> manual_required, nurse_images |-> nurse_images]

health_payload == [ok |-> TRUE, brand |-> BRAND_NAME]

None == [none |-> TRUE]
Idle == [st |-> "idle"]

\* the server accepts a request on a free connection and validates it; for
\* POST /reply the body becomes a Message
Receive(i, route, headers, body) ==
    /\ conn[i].st = "idle"
    /\ conn' = [conn EXCEPT ![i] =
                  [st |-> "pending", route |-> route, headers |-> headers,
                   msg |-> IF route = "/reply" THEN Message(body) ELSE None,
                   resp |-> None]]
    /\ UNCHANGED <<environ, globals>>

\* faulty variant of reply: the handler keeps the name of the message in
\* the module global the templates are rendered with
reply_keeps_name(i) ==
    /\ conn[i].st = "pending"
    /\ conn[i].route = "/reply"
    /\ conn' = [conn EXCEPT ![i].st = "done",
                            ![i].resp = reply_payload(conn[i].msg, conn[i].headers)]
    /\ BRAND_NAME' = conn[i].msg.name
    /\ UNCHANGED <<environ, NURSE_MEDIA_URL, NURSE_CURTAIN_URL, NURSE_BED_URL,
                   NURSE_NIL_URL, DEFAULT_TEMPLATES>>

\* @app.post("/reply")
reply(i) ==
    /\ conn[i].st = "pending"
    /\ conn[i].route = "/reply"
    /\ conn' = [conn EXCEPT ![i].st = "done",
                            ![i].resp = reply_payload(conn[i].msg, conn[i].headers)]
    /\ UNCHANGED <<environ, globals>>

\* @app.get("/test-nurse")
test_nurse(i) ==
    /\ conn[i].st = "pending"
    /\ conn[i].route = "/test-nurse"
    /\ conn' = [conn EXCEPT ![i].st = "done",
                            ![i].resp = test_nurse_payload(conn[i].headers)]
    /\ UNCHANGED <<environ, globals>>

\* @app.get("/")
health(i) ==
    /\ conn[i].st = "pending"
    /\ conn[i].route = "/"
    /\ conn' = [conn EXCEPT ![i].st = "done", ![i].resp = health_payload]
    /\ UNCHANGED <<environ, globals>>

\* the response is written and the connection is free again
Send(i) ==
    /\ conn[i].st = "done"
    /\ conn' = [conn EXCEPT ![i] = Idle]
    /\ UNCHANGED <<environ, globals>>

---------------------------------------------------------------------------
(* Inputs *)

\* the process environments the model starts from: nothing set, all set
Environs ==
    {<<>>,
     [BRAND_NAME |-> Str("Cap"), NURSE_MEDIA_URL |-> Str("/m.png"),
      NURSE_CURTAIN_URL |-> Str("/c.png"), NURSE_BED_URL |-> Str("/b.png"),
      NURSE_NIL_URL |-> Str("/n.png")]}

\* 18 code points that match no keyword
Pad == Str("zzzzzzzzzzzzzzzzzz")

\* the fragments texts are put together from
TextTokens ==
    {Str("Nurse"), Str("CRYPTO"), Str("sloane"), Str("this"), Str("HELP"),
     Str(" "), Pad, <<"U+0130">> \o Str("lke"), <<"U+1F642">>, <<"U+FE0F">>}

Texts == {Join(ts) : ts \in SeqsUpTo(TextTokens, MaxTokens)}
FewTexts == {Str("nurse"), Str("HELP"), Str("this")}
ConcTexts == {Str("nurse"), Str("HELP")}

Names == {Str("Ana")}
FewNames == {Str("Keith")}

\* the JSON bodies POST /reply accepts: text, and name or not
Bodies(T, N) == [text : T] \cup [name : N, text : T]

HeaderNames ==
    {Str("x-hub-signature"), Str("X-Hub-Signature"), Str("tiktok-signature"),
     Str("x-twitter-auth"), Str("user-agent")}
HeaderValues == {Str("sha1=0f"), Str("INSTAGRAM/1")}
HeaderLists == SeqsUpTo(HeaderNames \X HeaderValues, MaxHeaders)
NoHeaders == {<<>>}
FewHeaders == {<<>>, << <<Str("x-hub-signature"), Str("sha1=0f")>> >>}

Routes == {"/", "/reply", "/test-nurse"}

---------------------------------------------------------------------------
(* Specifications *)

\* import of the module: lines 81-110
Startup ==
    /\ environ \in Environs
    /\ BRAND_NAME = getenv("BRAND_NAME", Str("Captain Lethargy"))
    /\ NURSE_MEDIA_URL = getenv("NURSE_MEDIA_URL", <<>>)
    /\ NURSE_CURTAIN_URL = getenv("NURSE_CURTAIN_URL", <<>>)
    /\ NURSE_BED_URL = getenv("NURSE_BED_URL", <<>>)
    /\ NURSE_NIL_URL = getenv("NURSE_NIL_URL", <<>>)
    /\ DEFAULT_TEMPLATES = TemplateTable

\* a request with a body of B and headers of H arrives
Arrive(B, H) ==
    \E i \in DOMAIN conn :
        /\ conn[i].st = "idle"
        /\ \E route \in Routes, headers \in H, body \in B :
              Receive(i, route, headers, body)

\* one connection, every text, no header
Init == Startup /\ conn = [i \in 1..1 |-> Idle]
Next ==
    \/ Arrive(Bodies(Texts, Names), NoHeaders)
    \/ \E i \in DOMAIN conn : reply(i)
    \/ \E i \in DOMAIN conn : test_nurse(i)
    \/ \E i \in DOMAIN conn : health(i)
    \/ \E i \in DOMAIN conn : Send(i)
Spec == Init /\ [][Next]_vars

\* one connection, every header list
NextPlatform ==
    \/ Arrive(Bodies(FewTexts, FewNames), HeaderLists)
    \/ \E i \in DOMAIN conn : reply(i)
    \/ \E i \in DOMAIN conn : test_nurse(i)
    \/ \E i \in DOMAIN conn : health(i)
    \/ \E i \in DOMAIN conn : Send(i)
SpecPlatform == Init /\ [][NextPlatform]_vars

\* several connections: every interleaving of the requests in flight
InitConc == Startup /\ conn = [i \in 1..MaxConns |-> Idle]
NextConc ==
    \/ Arrive(Bodies(ConcTexts, FewNames), FewHeaders)
    \/ \E i \in DOMAIN conn : reply(i)
    \/ \E i \in DOMAIN conn : test_nurse(i)
    \/ \E i \in DOMAIN conn : health(i)
    \/ \E i \in DOMAIN conn : Send(i)
SpecConc == InitConc /\ [][NextConc]_vars

---------------------------------------------------------------------------
(* The replies, written out *)

BoundaryText(name) == Str("Hello ") \o name \o Str(". This inbox is for music-related chat.")
NurseText(name) ==
    Str("Hello ") \o name \o Str(". How are you today? Is there anything you need?")
WelcomeText(name, brand) ==
    Str("Hey ") \o name \o Str("! I") \o <<"U+2019">> \o Str("m ") \o brand
    \o Str(". What are you into ") \o <<"U+2014">> \o Str(" guitars, lyrics, or good vibes?")
ProbeText(name) ==
    Str("Hello ") \o name
    \o Str(". Are you interested in new releases, catalogue links, or something else?")

\* the configuration as the environment gives it
ConfiguredBrand == getenv("BRAND_NAME", Str("Captain Lethargy"))
ConfiguredImages ==
    [main |-> getenv("NURSE_MEDIA_URL", <<>>), curtain |-> getenv("NURSE_CURTAIN_URL", <<>>),
     bed |-> getenv("NURSE_BED_URL", <<>>), nil_by_mouth |-> getenv("NURSE_NIL_URL", <<>>)]

Platforms == {"facebook", "instagram", "tiktok", "x", "unknown"}
PlainKeys == {"reply", "platform", "manual_required"}

Answered(i) == conn[i].st = "done"
Replied(i) == conn[i].st = "done" /\ conn[i].route = "/reply"
NurseTested(i) == conn[i].st = "done" /\ conn[i].route = "/test-nurse"

HasNurse(text) == Contains(lower(text), Str("nurse"))
HasGreeting(text) ==
    LET t == lower(text)
    IN  \E w \in {Str("hi"), Str("hello"), Str("hey"), Str("yo")} : Contains(t, w)
HasSpamWord(text) ==
    LET t == lower(text)
    IN  \E w \in {Str("buy followers"), Str("crypto"), Str("viagra"), Str("casino"),
                  Str("loan")} : Contains(t, w)
HasUrgency(text) ==
    LET t == lower(text)
    IN  \E w \in {Str("help"), Str("urgent"), Str("problem"), Str("question"),
                  Str("issue"), Str("support"), Str("can you"), Str("please"),
                  Str("???")} : Contains(t, w)

---------------------------------------------------------------------------
(* C1 *)

---------------------------------------------------------------------------
(* C2 *)

---------------------------------------------------------------------------
(* C3 *)

\* the header lines of h whose name is n, letter case aside
Named(h, n) == {k \in DOMAIN h : lower(h[k][1]) = n}
Last(S) == CHOOSE k \in S : \A j \in S : j <= k
SaysInstagram(v) == Contains(lower(v), Str("instagram"))

\* what C3 says of the headers below x-hub-signature
C3_Below(h) ==
    IF Named(h, Str("tiktok-signature")) # {} THEN "tiktok"
    ELSE IF Named(h, Str("x-twitter-auth")) # {} THEN "x"
    ELSE "unknown"

\* C3 as stated: the platform is one of the five; with an x-hub-signature
\* header present it is "instagram" when that header's value holds
\* "instagram" and "facebook" otherwise, whatever other headers are present;
\* else tiktok, else x, else unknown.
C3_AnyHubHeader ==
    \A i \in DOMAIN conn : Replied(i) \/ NurseTested(i) =>
        LET h == conn[i].headers
            hub == Named(h, Str("x-hub-signature"))
            p == conn[i].resp.platform
        IN  /\ p \in Platforms
            /\ \A k \in hub : p = IF SaysInstagram(h[k][2]) THEN "instagram" ELSE "facebook"
            /\ hub = {} => p = C3_Below(h)

\* C3 amended: as stated, with the value of the last x-hub-signature header
\* of the request deciding between "instagram" and "facebook" when several
\* header lines have that name.
C3_LastHubHeader ==
    \A i \in DOMAIN conn : Replied(i) \/ NurseTested(i) =>
        LET h == conn[i].headers
            hub == Named(h, Str("x-hub-signature"))
            p == conn[i].resp.platform
        IN  /\ p \in Platforms
            /\ hub # {} =>
                 p = IF SaysInstagram(h[Last(hub)][2]) THEN "instagram" ELSE "facebook"
            /\ hub = {} => p = C3_Below(h)

\* two x-hub-signature headers in different letter case, the first with
\* "instagram" in upper case in its value, the last without
C3_Witness ==
    \E i \in DOMAIN conn :
        /\ Replied(i)
        /\ conn[i].headers = << <<Str("X-Hub-Signature"), Str("INSTAGRAM/1")>>,
                                <<Str("x-hub-signature"), Str("sha1=0f")>> >>
        /\ conn[i].resp.platform = "facebook"

---------------------------------------------------------------------------
(* C4 *)

\* the five emoji of line 49; the fifth is written with two code points
ListedEmoji ==
    {<<"U+1F642">>, <<"U+1F60A">>, <<"U+1F622">>, <<"U+1F62D">>, <<"U+2764", "U+FE0F">>}

\* C4: manual_required is false for the empty text; for any other text it is
\* true exactly when the text holds an urgency substring (letter case aside),
\* or is longer than 40 characters, or holds one of the 5 listed emoji.
C4_ManualExactly ==
    \A i \in DOMAIN conn : Replied(i) =>
        LET text == conn[i].msg.text
        IN  conn[i].resp.manual_required =
                /\ text # <<>>
                /\ \/ HasUrgency(text)
                   \/ Len(text) > 40
                   \/ \E e \in ListedEmoji : Contains(text, e)

---------------------------------------------------------------------------
(* C6 *)

\* C6: nurse_images is in the response exactly when the text is not spam and
\* holds "nurse"; the other responses have the keys reply, platform and
\* manual_required only; nurse_images has the keys main, curtain, bed and
\* nil_by_mouth, each with its configured URL.
C6_NurseImagesKey ==
    \A i \in DOMAIN conn : Replied(i) =>
        LET m == conn[i].msg
            r == conn[i].resp
        IN  IF ~is_spam(m.text) /\ HasNurse(m.text)
            THEN /\ DOMAIN r = PlainKeys \cup {"nurse_images"}
                 /\ DOMAIN r.nurse_images = {"main", "curtain", "bed", "nil_by_mouth"}
                 /\ r.nurse_images = ConfiguredImages
            ELSE DOMAIN r = PlainKeys

\* a nurse response with the four URLs of the environment
C6_Witness ==
    \E i \in DOMAIN conn :
        /\ Replied(i)
        /\ "nurse_images" \in DOMAIN conn[i].resp
        /\ conn[i].resp.nurse_images =
             [main |-> Str("/m.png"), curtain |-> Str("/c.png"),
              bed |-> Str("/b.png"), nil_by_mouth |-> Str("/n.png")]

---------------------------------------------------------------------------
(* C7 *)

\* C7: GET /test-nurse answers, whatever the headers, with the nurse greeting
\* for Keith, the 4 configured URLs and manual_required false; platform is
\* detect_platform of the request's headers; the payload is the one POST
\* /reply gives {name: "Keith", text: "nurse"} with the same headers.
C7_TestNurse ==
    \A i \in DOMAIN conn : NurseTested(i) =>
        LET r == conn[i].resp
        IN  /\ r.reply = NurseText(Str("Keith"))
            /\ r.nurse_images = ConfiguredImages
            /\ r.manual_required = FALSE
            /\ r.platform = detect_platform(conn[i].headers)
            /\ r = reply_payload([name |-> Str("Keith"), text |-> Str("nurse")],
                                 conn[i].headers)

\* GET /test-nurse answered for a request with a tiktok-signature header
C7_Witness ==
    \E i \in DOMAIN conn :
        /\ NurseTested(i)
        /\ conn[i].headers = << <<Str("tiktok-signature"), Str("sha1=0f")>> >>
        /\ conn[i].resp.platform = "tiktok"
        /\ conn[i].resp.reply = NurseText(Str("Keith"))

---------------------------------------------------------------------------
(* C8 *)

\* C8: no handler ends in an exception, whatever the name, the text and the
\* headers; every template the handler looks up is there and is not empty.
C8_Total ==
    /\ \A i \in DOMAIN conn : Answered(i) => "error" \notin DOMAIN conn[i].resp
    /\ \A i \in DOMAIN conn : Replied(i) =>
         /\ conn[i].resp.reply # <<>>
         /\ conn[i].resp.platform \in Platforms
         /\ conn[i].resp.manual_required \in BOOLEAN
    /\ \A c \in {<<"boundary", "pro">>, <<"welcome", "warm">>, <<"probe", "pro">>} :
         /\ lookup(c[1], c[2]).err = "none"
         /\ pick(lookup(c[1], c[2]).out) # <<>>

\* the empty text, without a name, answered with the probe template
C8_Witness ==
    \E i \in DOMAIN conn :
        /\ Replied(i)
        /\ conn[i].msg.text = <<>>
        /\ conn[i].resp.reply = ProbeText(Str("friend"))
        /\ conn[i].resp.manual_required = FALSE

---------------------------------------------------------------------------
(* C10 *)

\* C10: keywords match as raw substrings of the lowercased text: a text
\* without spam and without "nurse" in which a greeting word occurs anywhere,
\* inside a longer word too, gets the welcome template, and a text in which
\* a spam substring occurs in any letter case or inside a longer word gets
\* the boundary template.
C10_RawSubstrings ==
    \A i \in DOMAIN conn : Replied(i) =>
        LET m == conn[i].msg
            r == conn[i].resp
        IN  /\ HasSpamWord(m.text) => r.reply = BoundaryText(m.name)
            /\ ~HasSpamWord(m.text) /\ ~HasNurse(m.text) /\ HasGreeting(m.text) =>
                 r.reply = WelcomeText(m.name, ConfiguredBrand)

\* "this", whose only greeting word lies inside it, got the welcome template
C10_Witness ==
    \E i \in DOMAIN conn :
        /\ Replied(i)
        /\ conn[i].msg = [name |-> Str("friend"), text |-> Str("this")]
        /\ conn[i].resp.reply = WelcomeText(Str("friend"), ConfiguredBrand)

---------------------------------------------------------------------------
(* C5, C9: several requests *)

\* the branch a reply text for name shows
Branch(r, name) ==
    IF r.reply = BoundaryText(name) THEN "spam"
    ELSE IF r.reply = NurseText(name) THEN "nurse"
    ELSE IF r.reply = WelcomeText(name, ConfiguredBrand) THEN "greeting"
    ELSE IF r.reply = ProbeText(name) THEN "default"
    ELSE "none"

Alone(i) ==
    CASE conn[i].route = "/reply" -> reply_payload(conn[i].msg, conn[i].headers)
      [] conn[i].route = "/test-nurse" -> test_nurse_payload(conn[i].headers)
      [] conn[i].route = "/" -> health_payload

\* C9: whatever the interleaving, the template table and the configuration
\* are the ones of startup and every response is the one the request gets
\* alone.
C9_Stateless ==
    /\ DEFAULT_TEMPLATES = TemplateTable
    /\ BRAND_NAME = ConfiguredBrand
    /\ nurse_images = ConfiguredImages
    /\ \A i \in DOMAIN conn : Answered(i) => conn[i].resp = Alone(i)

\* two requests of other names answered while both are in flight
C9_Witness ==
    \E i, j \in DOMAIN conn :
        /\ Replied(i) /\ Replied(j)
        /\ conn[i].msg.name = Str("Keith") /\ conn[j].msg.name = Str("friend")
        /\ conn[i].resp.reply = ProbeText(Str("Keith"))
        /\ conn[j].resp.reply = NurseText(Str("friend"))

=============================================================================
